---- MODULE Spec2Model ----
(***************************************************************************)
(* State-machine model of the proton_rs compute graph                      *)
(* (server/src/compute_graph.rs, server/src/node.rs).                      *)
(*                                                                         *)
(* A ComputeGraph owns a vertex map, a state, and three cached fields       *)
(* (waves, executors, runner).  The public operations are new, set_node,    *)
(* remove_node, prepare and execute.  set_node / remove_node / prepare take *)
(* &mut self and are atomic for the model; execute is split into the steps  *)
(* of its wave loop so that the evaluations of one wave interleave.         *)
(*                                                                         *)
(* A second specification, SpecRegistry, models the shared NodeDefRegistry *)
(* (shared/src/node_def_registry.rs) with several concurrent callers.      *)
(***************************************************************************)
EXTENDS Integers, Sequences, FiniteSets, TLC

\* ---------------------------------------------------------------------
\* Bounds of the model
\* ---------------------------------------------------------------------

\* Vertex ids of the general catalog are 1..MaxId.
MaxId == 2

\* prepare(max_threads) is called with max_threads in 1..MaxThreads.
MaxThreads == 2

\* The registry is shared by MaxCallers threads.
MaxCallers == 2

\* A batch of run_batch has at most MaxJobs jobs.
MaxJobs == 3

\* new_with_max_batch_size is called with max_batch_size in 0..MaxCapacity.
MaxCapacity == 2

\* ---------------------------------------------------------------------
\* Program constants
\* ---------------------------------------------------------------------

\* node_output_index is a u8: `j as u8` wraps modulo 256.
U8Range == 256

\* max_parallel is a u16: `wave.len() as u16` wraps modulo 65536.
U16Range == 65536

\* ---------------------------------------------------------------------
\* Option<T>: None is the empty sequence, Some(x) the one-element sequence
\* ---------------------------------------------------------------------

None == <<>>

Some(x) == <<x>>

IsNone(o) == Len(o) = 0

IsSome(o) == Len(o) = 1

Unwrap(o) == o[1]

Range(s) == {s[k] : k \in 1..Len(s)}

Min(a, b) == IF a < b THEN a ELSE b

\* All orders in which a HashMap with key set S may be iterated.
IterationOrders(S) ==
    {f \in [1..Cardinality(S) -> S] : \A a, b \in 1..Cardinality(S) : f[a] = f[b] => a = b}

\* ---------------------------------------------------------------------
\* Values, inputs, vertices
\* ---------------------------------------------------------------------

\* NodeInput::Const(NodeValue::Count(v))
Const(v) == [kind |-> "Const", val |-> v]

\* NodeInput::Wire(NodeOutputRef{from_node_id, node_output_index})
Wire(from, index) == [kind |-> "Wire", from_node_id |-> from, node_output_index |-> index]

Node(id, def_name, inputs) == [id |-> id, def_name |-> def_name, inputs |-> inputs]

\* NodeOutputRef as a key of the result store.
NodeOutputRef(from, index) == <<from, index>>

\* ---------------------------------------------------------------------
\* The registry of the model: the two definitions of the test
\* executes_simple_graphs, a function with two outputs, an output
\* device, and a stateful definition (executor factory) with two outputs.
\* ---------------------------------------------------------------------

Registry ==
    [output_1 |-> [inputs |-> 0, outputs |-> 1, runner |-> "Function"],
     add      |-> [inputs |-> 2, outputs |-> 1, runner |-> "Function"],
     pair     |-> [inputs |-> 0, outputs |-> 2, runner |-> "Function"],
     sink     |-> [inputs |-> 1, outputs |-> 0, runner |-> "OutputDevice"],
     splitter |-> [inputs |-> 0, outputs |-> 2, runner |-> "Executor"]]

\* wrap_node_function indexes `inputs[idx]` for every declared argument:
\* with fewer inputs than arguments the index is out of bounds and the
\* call panics; surplus inputs are never read.
function_panics(def_name, input_vals) ==
    Len(input_vals) < Registry[def_name].inputs

\* The function bodies: output_1 and add as registered by
\* executes_simple_graphs; pair returns the counts 1 and 2.
RunFunction(def_name, input_vals) ==
    IF def_name = "output_1" THEN <<1>>
    ELSE IF def_name = "pair" THEN <<1, 2>>
    ELSE <<input_vals[1] + input_vals[2]>>

\* Node::with_registry(..).get_output_count()
get_output_count(node) == Registry[node.def_name].outputs

\* Node::with_registry(..).prepare(mask): the executor bound to a vertex;
\* a pure function or an output device has none.
node_prepare(node, mask) ==
    IF Registry[node.def_name].runner = "Executor"
    THEN Some([def_name |-> node.def_name, enabled_outputs |-> mask])
    ELSE None

\* ---------------------------------------------------------------------
\* Catalogs: the vertices set_node and new draw from
\* ---------------------------------------------------------------------

\* The general catalog: over the ids 1..MaxId, the vertices output_1[]
\* and add[Wire{i,0}, Wire{j,0}].
GeneralIds == 1..MaxId

GeneralWires == {Wire(i, 0) : i \in GeneralIds}

GeneralBodies ==
    {[def_name |-> "output_1", inputs |-> <<>>]}
    \cup {[def_name |-> "add", inputs |-> <<a, b>>] : a \in GeneralWires, b \in GeneralWires}

\* The scenario catalog: the vertices of the test executes_simple_graphs
\* (the diamond) and of chain, cycle, invalid-wire, sink and two-output
\* scenarios.
ScenarioNodes ==
    {Node(1, "output_1", <<>>),
     Node(2, "add", <<Wire(1, 0), Const(3)>>),
     Node(3, "add", <<Wire(1, 0), Const(5)>>),
     Node(4, "add", <<Wire(2, 0), Wire(3, 0)>>),
     Node(2, "add", <<Wire(1, 0), Const(1)>>),
     Node(3, "add", <<Wire(2, 0), Const(1)>>),
     Node(1, "add", <<Wire(2, 0), Const(0)>>),
     Node(2, "add", <<Wire(1, 0), Const(0)>>),
     Node(1, "add", <<Wire(99, 0), Const(0)>>),
     Node(3, "add", <<Const(5), Wire(1, 0)>>),
     Node(2, "sink", <<Wire(1, 0)>>),
     Node(4, "sink", <<Wire(3, 0)>>),
     Node(1, "pair", <<>>),
     Node(2, "add", <<Wire(1, 1), Const(3)>>)}

ScenarioIds == {n.id : n \in ScenarioNodes}

\* The stateful catalog: a vertex of the executor definition with one or
\* both of its outputs wired, an output device, and vertices whose input
\* count differs from the definition's (one input too many, one too few).
StatefulNodes ==
    {Node(1, "splitter", <<>>),
     Node(1, "output_1", <<Const(3)>>),
     Node(2, "add", <<Wire(1, 0), Const(3)>>),
     Node(2, "add", <<Wire(1, 0), Wire(1, 1)>>),
     Node(2, "sink", <<Wire(1, 1)>>),
     Node(3, "add", <<Wire(1, 0)>>),
     Node(3, "splitter", <<>>)}

StatefulIds == {n.id : n \in StatefulNodes}

Catalogs == {"general", "scenarios", "stateful"}

CatalogIds(c) ==
    IF c = "general" THEN GeneralIds
    ELSE IF c = "scenarios" THEN ScenarioIds
    ELSE StatefulIds

CatalogNodes(c) ==
    IF c = "general"
    THEN {Node(i, b.def_name, b.inputs) : i \in GeneralIds, b \in GeneralBodies}
    ELSE IF c = "scenarios" THEN ScenarioNodes
    ELSE StatefulNodes

\* Every vertex map new() can build from a list of catalog vertices.
CatalogGraphs(c) ==
    UNION {{g \in [S -> CatalogNodes(c)] : \A i \in S : g[i].id = i}
           : S \in SUBSET CatalogIds(c)}

AllIds == GeneralIds \cup ScenarioIds \cup StatefulIds

\* ---------------------------------------------------------------------
\* ComputeGraphState
\* ---------------------------------------------------------------------

Unprepared == [tag |-> "Unprepared"]

ErrFoundCycle == [tag |-> "ErrFoundCycle"]

ErrInvalidWire(from, to) ==
    [tag |-> "ErrInvalidWire", from_node |-> from, to_missing_node |-> to]

Ready == [tag |-> "Ready"]

\* ---------------------------------------------------------------------
\* State
\* ---------------------------------------------------------------------

VARIABLES
    catalog,    \* which catalog the host draws vertices from (fixed per run)
    nodes,      \* ComputeGraph.nodes: id -> Node
    state,      \* ComputeGraph.state
    waves,      \* ComputeGraph.waves: Option<Vec<Vec<u32>>>
    executors,  \* ComputeGraph.executors: Option<id -> Option<executor>>
    runner,     \* ComputeGraph.runner: Option<thread count of the pool>
    pc,         \* position of the host: idle, inside execute, or panicked
    wave_idx,   \* execute: index of the wave of the for loop
    pending,    \* execute: positions of the wave no worker has taken yet
    running,    \* execute: positions of the wave being evaluated by a worker
    results,    \* execute: the position-indexed buffer `results`
    ret,        \* execute: the result store `ret`
    last_call,  \* the last API call and what it returned
    runs,       \* runner invocations per vertex id during the last execute
    seen,       \* <<thread count, result store>> of every execute that
                \* returned Ok for the current vertex map
    lock,       \* execute: the RwLock around `ret` (readers, writer)
    masks,      \* active_outputs_per_node of the last prepare that bound
                \* executors to the current vertex map
    prepare_calls,  \* executor prepare(mask) calls per vertex id during the
                    \* last prepare
    requested,  \* max_threads of the prepare call that was the last API
                \* call (0 after any other call)
    map,        \* NodeDefRegistry: name -> registered definition
    reg_pc,     \* NodeDefRegistry: position of each caller
    reg_arg,    \* NodeDefRegistry: <<name, definition>> of each caller's call
    registered, \* names -> register calls that returned since the last reset
    reg_last,   \* the last registry call that returned, and how
    pool,       \* Threadrunner.pool: the number of threads of the pool
    capacity,   \* Threadrunner: Option<bound of the output channel>
    needs_drop, \* Threadrunner: whether OUTPUT has drop glue
    jobs,       \* run_batch: the inputs of the batch, in iterator order
    job_state,  \* run_batch: queued / running / done, per job index
    channel,    \* Threadrunner: the (index, output) messages in the channel
    outputs,    \* run_batch: the vector `outputs`
    output_count,   \* run_batch: the counter `output_count`
    batch_pc,   \* run_batch: position of the calling thread
    batch_result    \* run_batch: what the last call returned

vars == <<catalog, nodes, state, waves, executors, runner, pc, wave_idx,
          pending, running, results, ret, last_call, runs, seen, lock,
          masks, prepare_calls, requested, map, reg_pc, reg_arg, registered,
          reg_last, pool, capacity, needs_drop, jobs, job_state, channel,
          outputs, output_count, batch_pc, batch_result>>

registry_vars == <<map, reg_pc, reg_arg, registered, reg_last>>

compute_vars == <<catalog, nodes, state, waves, executors, runner, pc, wave_idx,
                  pending, running, results, ret, last_call, runs, seen, lock,
                  masks, prepare_calls, requested>>

batch_vars == <<pool, capacity, needs_drop, jobs, job_state, channel, outputs,
                output_count, batch_pc, batch_result>>

graph_vars == <<nodes, state, waves, executors, runner>>

exec_vars == <<wave_idx, pending, running, results>>

EmptyStore == <<>>

NoRuns == [i \in AllIds |-> 0]

\* `RwLock::new(..)`: no guard is held.
Unlocked == [readers |-> 0, writer |-> FALSE]

\* `.read()` returns once no writer holds the lock.
can_read(l) == ~l.writer

read_lock(l) == [l EXCEPT !.readers = @ + 1]

\* Variant: the read guard is not scoped in a block of its own and is
\* still alive when the write guard is asked for.
read_unlock_guard_kept(l) == l

\* A read guard goes out of scope.
read_unlock(l) == [l EXCEPT !.readers = @ - 1]

\* `.write()` returns once no guard at all is held.
can_write(l) == l.readers = 0 /\ ~l.writer

write_lock(l) == [l EXCEPT !.writer = TRUE]

\* The write guard goes out of scope.
write_unlock(l) == [l EXCEPT !.writer = FALSE]

\* Callers of the registry (threads holding a clone of it).
Callers == 1..MaxCallers

\* Names and definitions the callers register.
DefNames == {"add", "output_1"}

DefBodies == {"first", "second"}

NoDefs == [name \in {} |-> "first"]

NoCall == <<>>

\* NodeDefRegistry::new, no call in progress.
RegistryInit ==
    /\ map = [readers |-> 0, defs |-> NoDefs]
    /\ reg_pc = [t \in Callers |-> "idle"]
    /\ reg_arg = [t \in Callers |-> NoCall]
    /\ registered = [name \in DefNames |-> 0]
    /\ reg_last = [op |-> "new", name |-> "", val |-> "registry"]

\* A Threadrunner on which run_batch is never called.
BatchIdle ==
    /\ pool = 1
    /\ capacity = None
    /\ needs_drop = FALSE
    /\ jobs = <<>>
    /\ job_state = <<>>
    /\ channel = <<>>
    /\ outputs = <<>>
    /\ output_count = 0
    /\ batch_pc = "idle"
    /\ batch_result = None

\* A graph that is never touched, for the specifications of the registry
\* and of the Threadrunner.
GraphInit ==
    /\ catalog = "general"
    /\ nodes = <<>>
    /\ state = Unprepared
    /\ waves = None
    /\ executors = None
    /\ runner = None
    /\ pc = "idle"
    /\ wave_idx = 0
    /\ pending = {}
    /\ running = {}
    /\ results = <<>>
    /\ ret = EmptyStore
    /\ last_call = [op |-> "new", val |-> "graph"]
    /\ runs = NoRuns
    /\ seen = {}
    /\ lock = Unlocked
    /\ masks = None
    /\ prepare_calls = NoRuns
    /\ requested = 0

\* ---------------------------------------------------------------------
\* ComputeGraph::new
\* ---------------------------------------------------------------------

Init ==
    /\ catalog \in Catalogs
    /\ nodes \in CatalogGraphs(catalog)
    /\ state = Unprepared
    /\ waves = None
    /\ executors = None
    /\ runner = None
    /\ pc = "idle"
    /\ wave_idx = 0
    /\ pending = {}
    /\ running = {}
    /\ results = <<>>
    /\ ret = EmptyStore
    /\ last_call = [op |-> "new", val |-> "graph"]
    /\ runs = NoRuns
    /\ seen = {}
    /\ lock = Unlocked
    /\ masks = None
    /\ prepare_calls = NoRuns
    /\ requested = 0
    /\ RegistryInit
    /\ BatchIdle

\* ---------------------------------------------------------------------
\* ComputeGraph::set_node / remove_node
\* ---------------------------------------------------------------------

\* The vertex map after nodes.insert(node.id, node).
InsertNode(m, node) ==
    [i \in DOMAIN m \cup {node.id} |-> IF i = node.id THEN node ELSE m[i]]

\* The vertex map after nodes.remove(node_id).
RemoveNode(m, node_id) == [i \in DOMAIN m \ {node_id} |-> m[i]]

\* Bookkeeping of an API call that is not execute.
Called(op, val, new_nodes) ==
    /\ last_call' = [op |-> op, val |-> val]
    /\ runs' = NoRuns
    /\ ret' = EmptyStore
    /\ seen' = IF new_nodes = nodes THEN seen ELSE {}
    /\ UNCHANGED <<lock, registry_vars, batch_vars>>

\* Variant: a mutation keeps an error state.
invalidate_unless_error(st) ==
    IF st.tag \in {"ErrFoundCycle", "ErrInvalidWire"} THEN st ELSE Unprepared

\* `self.state = ComputeGraphState::Unprepared`
invalidate(st) == Unprepared

set_node ==
    /\ pc = "idle"
    /\ \E node \in CatalogNodes(catalog) :
        /\ nodes' = InsertNode(nodes, node)
        /\ state' = invalidate(state)
        /\ waves' = None
        /\ Called("set_node", "unit", InsertNode(nodes, node))
    /\ masks' = None
    /\ prepare_calls' = NoRuns
    /\ requested' = 0
    /\ UNCHANGED <<catalog, executors, runner, pc, exec_vars>>

remove_node ==
    /\ pc = "idle"
    /\ \E node_id \in CatalogIds(catalog) :
        /\ nodes' = RemoveNode(nodes, node_id)
        /\ state' = invalidate(state)
        /\ waves' = None
        /\ Called("remove_node", "unit", RemoveNode(nodes, node_id))
    /\ masks' = None
    /\ prepare_calls' = NoRuns
    /\ requested' = 0
    /\ UNCHANGED <<catalog, executors, runner, pc, exec_vars>>

\* ---------------------------------------------------------------------
\* ComputeGraph::build_deps_graph
\* ---------------------------------------------------------------------

\* The Wire inputs of a vertex, in input order.
WireInputs(node) ==
    SelectSeq(node.inputs, LAMBDA input : input.kind = "Wire")

build_deps_graph(m) ==
    [id \in DOMAIN m |->
        [k \in 1..Len(WireInputs(m[id])) |-> WireInputs(m[id])[k].from_node_id]]

\* ---------------------------------------------------------------------
\* ComputeGraph::prepare_graph_order
\* ---------------------------------------------------------------------

\* Variant: an unlabelled `continue` in the inner loop, which never skips
\* the vertex.
deps_placed_unlabelled_continue(deps, nodes_in_prev_wave) == TRUE

\* The inner `for dep in deps` loop: `continue 'outer` on the first
\* dependency that is not yet placed.
deps_placed(deps, nodes_in_prev_wave) ==
    \A k \in 1..Len(deps) : deps[k] \in nodes_in_prev_wave

\* Variant: a vertex joins nodes_in_prev_wave as soon as it is placed.
placed_during_pass_eager(nodes_in_prev_wave, nodes_in_this_wave) ==
    nodes_in_prev_wave \cup nodes_in_this_wave

\* The set the pass tests membership in: vertices of this pass are put
\* into nodes_in_this_wave and join nodes_in_prev_wave only after the pass.
placed_during_pass(nodes_in_prev_wave, nodes_in_this_wave) == nodes_in_prev_wave

\* One pass of `'outer: for (node_id, deps) in dep_graph.iter()`, in the
\* iteration order `order` of the map.
RECURSIVE wave_pass(_, _, _, _)
wave_pass(dep_graph, order, nodes_in_prev_wave, wave) ==
    IF Len(order) = 0 THEN wave
    ELSE LET node_id == Head(order)
             placed == placed_during_pass(nodes_in_prev_wave, Range(wave))
         IN  IF node_id \in placed
             THEN wave_pass(dep_graph, Tail(order), nodes_in_prev_wave, wave)
             ELSE IF ~deps_placed(dep_graph[node_id], placed)
             THEN wave_pass(dep_graph, Tail(order), nodes_in_prev_wave, wave)
             ELSE wave_pass(dep_graph, Tail(order), nodes_in_prev_wave,
                            Append(wave, node_id))

\* `if wave.len() as u16 > max_parallel { max_parallel = wave.len() as u16 }`
widen(max_parallel, wave) ==
    IF Len(wave) % U16Range > max_parallel THEN Len(wave) % U16Range ELSE max_parallel

\* Variant: the empty wave returns None without recording the cycle.
found_cycle_keeps_state == [result |-> None, state_set |-> None, waves_set |-> None]

\* What an empty wave leaves behind.
found_cycle == [result |-> None, state_set |-> Some(ErrFoundCycle), waves_set |-> None]

\* Variant: the loop stops one vertex short.
all_placed_one_short(nodes_in_prev_wave, node_count) ==
    Cardinality(nodes_in_prev_wave) + 1 >= node_count

\* The loop condition, negated: `nodes_in_prev_wave.len() == self.nodes.len()`.
all_placed(nodes_in_prev_wave, node_count) ==
    Cardinality(nodes_in_prev_wave) = node_count

\* The `while nodes_in_prev_wave.len() != self.nodes.len()` loop.
RECURSIVE collect_waves(_, _, _, _, _, _)
collect_waves(dep_graph, order, node_count, nodes_in_prev_wave, acc, max_parallel) ==
    IF all_placed(nodes_in_prev_wave, node_count)
    THEN [result |-> Some(max_parallel), state_set |-> None, waves_set |-> Some(acc)]
    ELSE LET wave == wave_pass(dep_graph, order, nodes_in_prev_wave, <<>>)
         IN  IF Len(wave) = 0
             THEN found_cycle
             ELSE collect_waves(dep_graph, order, node_count,
                                nodes_in_prev_wave \cup Range(wave),
                                Append(acc, wave), widen(max_parallel, wave))

\* The early return of prepare_graph_order when waves are cached.
waves_cached(w) == IsSome(w)

\* prepare_graph_order: result is the Option<u16> it returns; state_set and
\* waves_set are the assignments it makes to self.state and self.waves.
prepare_graph_order(m, w, order) ==
    IF waves_cached(w)
    THEN [result |-> None, state_set |-> None, waves_set |-> None]
    ELSE collect_waves(build_deps_graph(m), order, Cardinality(DOMAIN m), {}, <<>>, 1)

\* What prepare_graph_order can do, over the iteration orders of dep_graph.
graph_orders(m, w) ==
    {prepare_graph_order(m, w, order) : order \in IterationOrders(DOMAIN m)}

\* ---------------------------------------------------------------------
\* ComputeGraph::compute_active_outputs
\* ---------------------------------------------------------------------

\* all_wires: every Wire input of every vertex.
all_wires(m) == UNION {Range(WireInputs(m[id])) : id \in DOMAIN m}

\* The two unwraps of the marking loop succeed for this wire.
wire_in_range(m, wire) ==
    /\ wire.from_node_id \in DOMAIN m
    /\ wire.node_output_index < get_output_count(m[wire.from_node_id])

\* `vec![false; node.get_output_count()]` for every vertex.
initial_masks(m) ==
    [id \in DOMAIN m |-> [j \in 1..get_output_count(m[id]) |-> FALSE]]

\* Variant: a wire marks every output of its producer.
set_active_whole_vertex(result, wire) ==
    [result EXCEPT ![wire.from_node_id] = [j \in DOMAIN @ |-> TRUE]]

\* `*result.get_mut(&from_node_id).unwrap().get_mut(index).unwrap() = true`
set_active(result, wire) ==
    [result EXCEPT ![wire.from_node_id][wire.node_output_index + 1] = TRUE]

\* `for wire in all_wires { ... }` over the wires not yet visited.
RECURSIVE mark_wires(_, _)
mark_wires(result, wires) ==
    IF wires = {} THEN result
    ELSE LET wire == CHOOSE w \in wires : TRUE
         IN  mark_wires(set_active(result, wire), wires \ {wire})

\* None when an unwrap of the marking loop panics.
compute_active_outputs(m) ==
    IF \E wire \in all_wires(m) : ~wire_in_range(m, wire)
    THEN None
    ELSE Some(mark_wires(initial_masks(m), all_wires(m)))

\* ---------------------------------------------------------------------
\* ComputeGraph::prepare
\* ---------------------------------------------------------------------

\* Variant: the pool always gets the requested number of threads.
thread_count_as_requested(max_parallel, max_threads) == max_threads

\* `min(max_parallel, max_threads)`
thread_count(max_parallel, max_threads) == Min(max_parallel, max_threads)

\* Variant: only the vertices that get an executor are entered in the map.
bind_executors_stateful_only(m, active_outputs_per_node) ==
    [id \in {i \in DOMAIN m : IsSome(node_prepare(m[i], active_outputs_per_node[i]))} |->
        node_prepare(m[id], active_outputs_per_node[id])]

\* The executors map built by the par_iter over the vertices.
bind_executors(m, active_outputs_per_node) ==
    [id \in DOMAIN m |-> node_prepare(m[id], active_outputs_per_node[id])]

\* How often the par_iter calls an executor's prepare(mask), per vertex
\* id: once for every vertex Node::prepare binds an executor to.
executor_prepare_calls(m, active_outputs_per_node) ==
    [id \in AllIds |->
        IF id \in DOMAIN m /\ IsSome(node_prepare(m[id], active_outputs_per_node[id]))
        THEN 1 ELSE 0]

prepare ==
    /\ pc = "idle"
    /\ \E max_threads \in 1..MaxThreads, go \in graph_orders(nodes, waves) :
        /\ requested' = max_threads
        /\ LET new_state == IF IsSome(go.state_set) THEN Unwrap(go.state_set) ELSE state
               new_waves == IF IsSome(go.waves_set) THEN go.waves_set ELSE waves
               active == compute_active_outputs(nodes)
           IN  IF IsNone(go.result)
               THEN /\ state' = new_state
                    /\ waves' = new_waves
                    /\ prepare_calls' = NoRuns
                    /\ UNCHANGED <<executors, runner, pc, masks>>
                    /\ Called("prepare", "false", nodes)
               ELSE /\ waves' = new_waves
                    /\ runner' = Some(thread_count(Unwrap(go.result), max_threads))
                    /\ IF IsNone(active)
                       THEN /\ pc' = "panicked"
                            /\ prepare_calls' = NoRuns
                            /\ UNCHANGED <<state, executors, masks>>
                            /\ Called("prepare", "panic", nodes)
                       ELSE /\ executors' = Some(bind_executors(nodes, Unwrap(active)))
                            /\ masks' = active
                            /\ prepare_calls' = executor_prepare_calls(nodes, Unwrap(active))
                            /\ state' = Ready
                            /\ pc' = "idle"
                            /\ Called("prepare", "true", nodes)
    /\ UNCHANGED <<catalog, nodes, exec_vars>>

\* ---------------------------------------------------------------------
\* Node::evaluate
\* ---------------------------------------------------------------------

\* The key a Wire input looks up in the result store.
WireKey(input) == NodeOutputRef(input.from_node_id, input.node_output_index)

\* `evaluated_outputs.get(&output_ref).unwrap()` succeeds for every Wire.
inputs_present(node, evaluated_outputs) ==
    \A k \in 1..Len(node.inputs) :
        node.inputs[k].kind = "Wire" => WireKey(node.inputs[k]) \in DOMAIN evaluated_outputs

\* input_vals: a Const gives its value, a Wire the stored value.
input_vals(node, evaluated_outputs) ==
    [k \in 1..Len(node.inputs) |->
        IF node.inputs[k].kind = "Const"
        THEN node.inputs[k].val
        ELSE evaluated_outputs[WireKey(node.inputs[k])]]

\* The stateful executor's execute(inputs): as many values as declared.
executor_execute(executor, node, vals) ==
    [j \in 1..get_output_count(node) |-> 0]

\* Variant: an output device yields a placeholder value.
device_outputs_placeholder == <<0>>

\* What the OutputDevice arm yields: the device runs for its side effect
\* and contributes no output.
device_outputs == <<>>

\* The values evaluate returns; None when the lookup of a Wire or the
\* function body panics.
evaluate(node, evaluated_outputs, executor) ==
    IF ~inputs_present(node, evaluated_outputs)
    THEN None
    ELSE LET vals == input_vals(node, evaluated_outputs)
             run == Registry[node.def_name].runner
         IN  IF run = "Function"
             THEN IF function_panics(node.def_name, vals)
                  THEN None
                  ELSE Some(RunFunction(node.def_name, vals))
             ELSE IF run = "OutputDevice" THEN Some(device_outputs)
             ELSE Some(executor_execute(executor, node, vals))

\* ---------------------------------------------------------------------
\* ComputeGraph::execute
\* ---------------------------------------------------------------------

\* Variant: only the error states are rejected.
not_ready_errors_only(st) == st.tag \in {"ErrFoundCycle", "ErrInvalidWire"}

\* Variant: only the Unprepared state is rejected.
not_ready_unprepared_only(st) == st.tag = "Unprepared"

\* `if self.state != ComputeGraphState::Ready`
not_ready(st) == st # Ready

\* writer.insert(key, val)
Insert(m, key, val) ==
    [x \in DOMAIN m \cup {key} |-> IF x = key THEN val ELSE m[x]]

\* Variant: every output of a vertex is stored under index 0.
output_key_index_zero(wave, i, j) == NodeOutputRef(wave[i], 0)

\* Variant: the outputs are numbered from 1.
output_key_one_based(wave, i, j) == NodeOutputRef(wave[i], (j + 1) % U8Range)

\* Variant: the position in the wave is used as the vertex id.
output_key_by_position(wave, i, j) == NodeOutputRef(i, j % U8Range)

\* The key under which output j (from 0) of the vertex at position i of
\* the wave is stored.
output_key(wave, i, j) == NodeOutputRef(wave[i], j % U8Range)

\* Variant: only the first output of a vertex is published.
insert_outputs_first_only(m, wave, i, result, j) ==
    IF Len(result) = 0 THEN m ELSE Insert(m, output_key(wave, i, 0), result[1])

\* `for (j, val) in result.into_iter().enumerate()`, from index j on.
RECURSIVE insert_outputs(_, _, _, _, _)
insert_outputs(m, wave, i, result, j) ==
    IF j > Len(result) THEN m
    ELSE insert_outputs(Insert(m, output_key(wave, i, j - 1), result[j]),
                        wave, i, result, j + 1)

\* `for (i, result) in results.into_iter().enumerate()`, from position i on.
RECURSIVE insert_results(_, _, _, _)
insert_results(m, wave, res, i) ==
    IF i > Len(res) THEN m
    ELSE insert_results(insert_outputs(m, wave, i, Unwrap(res[i]), 1), wave, res, i + 1)

\* Variant: results are pushed in completion order.
result_slot_completion_order(res, i) ==
    CHOOSE k \in 1..Len(res) : IsNone(res[k]) /\ \A l \in 1..(k - 1) : IsSome(res[l])

\* The position of `results` a finished evaluation of position i fills
\* (collect_into_vec keeps the order of the wave).
result_slot(res, i) == i

CurrentWave == Unwrap(waves)[wave_idx]

\* The call of execute up to the wave loop: the precondition error, a
\* panic of one of the unwraps, or the start of the loop.
execute ==
    /\ pc = "idle"
    /\ runs' = NoRuns
    /\ ret' = EmptyStore
    /\ IF not_ready(state)
       THEN /\ last_call' = [op |-> "execute", val |-> "Err"]
            /\ UNCHANGED <<pc, wave_idx>>
       ELSE IF IsNone(executors) \/ IsNone(runner) \/ IsNone(waves)
       THEN /\ last_call' = [op |-> "execute", val |-> "panic"]
            /\ pc' = "panicked"
            /\ UNCHANGED wave_idx
       ELSE /\ last_call' = [op |-> "execute", val |-> "pending"]
            /\ pc' = "loop"
            /\ wave_idx' = 1
    /\ prepare_calls' = NoRuns
    /\ requested' = 0
    /\ UNCHANGED <<catalog, graph_vars, pending, running, results, seen, lock,
                   masks, registry_vars, batch_vars>>

\* `let reader = ret.read()` and the start of the parallel map of a wave.
wave_begin ==
    /\ pc = "loop"
    /\ wave_idx <= Len(Unwrap(waves))
    /\ can_read(lock)
    /\ lock' = read_lock(lock)
    /\ pc' = "read"
    /\ results' = [i \in 1..Len(CurrentWave) |-> None]
    /\ pending' = 1..Len(CurrentWave)
    /\ running' = {}
    /\ UNCHANGED <<catalog, graph_vars, wave_idx, ret, last_call, runs, seen,
                   masks, prepare_calls, requested,
                   registry_vars, batch_vars>>

\* A worker of the pool takes the vertex at position i of the wave: it
\* reads the inputs and invokes the runner.
eval_start ==
    /\ pc = "read"
    /\ \E i \in pending :
        /\ Cardinality(running) < Unwrap(runner)
        /\ LET node_id == CurrentWave[i]
           IN  IF \/ node_id \notin DOMAIN nodes
                  \/ node_id \notin DOMAIN Unwrap(executors)
                  \/ IsNone(evaluate(nodes[node_id], ret, Unwrap(executors)[node_id]))
               THEN /\ pc' = "panicked"
                    /\ last_call' = [op |-> "execute", val |-> "panic"]
                    /\ UNCHANGED <<pending, running, runs>>
               ELSE /\ pending' = pending \ {i}
                    /\ running' = running \cup {i}
                    /\ runs' = [runs EXCEPT ![node_id] = @ + 1]
                    /\ UNCHANGED <<pc, last_call>>
    /\ UNCHANGED <<catalog, graph_vars, wave_idx, results, ret, seen, lock,
                   masks, prepare_calls, requested,
                   registry_vars, batch_vars>>

\* The evaluation of position i returns its outputs into `results`.
eval_finish ==
    /\ pc = "read"
    /\ \E i \in running :
        LET node_id == CurrentWave[i]
            out == evaluate(nodes[node_id], ret, Unwrap(executors)[node_id])
        IN  /\ results' = [results EXCEPT ![result_slot(results, i)] = out]
            /\ running' = running \ {i}
    /\ UNCHANGED <<catalog, graph_vars, pc, wave_idx, pending, ret, last_call,
                   runs, seen, lock, masks, prepare_calls, requested,
                   registry_vars, batch_vars>>

\* Variant: the map returns as soon as every position is dispatched.
map_complete_when_dispatched(todo, busy) == todo = {}

\* collect_into_vec returns when every position of the wave is evaluated.
map_complete(todo, busy) == todo = {} /\ busy = {}

\* The parallel map is complete and the block of the read guard ends.
wave_collect ==
    /\ pc = "read"
    /\ map_complete(pending, running)
    /\ lock' = read_unlock(lock)
    /\ pc' = "collected"
    /\ UNCHANGED <<catalog, graph_vars, exec_vars, ret, last_call, runs, seen,
                   masks, prepare_calls, requested,
                   registry_vars, batch_vars>>

\* `let mut writer = ret.write()`
wave_lock ==
    /\ pc = "collected"
    /\ can_write(lock)
    /\ lock' = write_lock(lock)
    /\ pc' = "write"
    /\ UNCHANGED <<catalog, graph_vars, exec_vars, ret, last_call, runs, seen,
                   masks, prepare_calls, requested,
                   registry_vars, batch_vars>>

\* The insertion loop under the write guard; the guard is dropped at the
\* end of the iteration of the wave loop.
wave_write ==
    /\ pc = "write"
    /\ ret' = insert_results(ret, CurrentWave, results, 1)
    /\ lock' = write_unlock(lock)
    /\ wave_idx' = wave_idx + 1
    /\ results' = <<>>
    /\ pc' = "loop"
    /\ UNCHANGED <<catalog, graph_vars, pending, running, last_call, runs, seen,
                   masks, prepare_calls, requested,
                   registry_vars, batch_vars>>

\* `return Ok(ret.into_inner())`
execute_return ==
    /\ pc = "loop"
    /\ wave_idx > Len(Unwrap(waves))
    /\ pc' = "idle"
    /\ wave_idx' = 0
    /\ last_call' = [op |-> "execute", val |-> "Ok"]
    /\ seen' = seen \cup {<<Unwrap(runner), ret>>}
    /\ UNCHANGED <<catalog, graph_vars, pending, running, results, ret, runs,
                   lock, masks, prepare_calls, requested,
                   registry_vars, batch_vars>>

Next ==
    \/ set_node
    \/ remove_node
    \/ prepare
    \/ execute
    \/ wave_begin
    \/ eval_start
    \/ eval_finish
    \/ wave_collect
    \/ wave_lock
    \/ wave_write
    \/ execute_return

Spec == Init /\ [][Next]_vars

\* Once execute is called, the calling thread and the workers of the pool
\* keep running: every step of the wave loop that stays possible is
\* eventually taken.  The host is not obliged to make any API call.
ExecuteFairness ==
    /\ WF_vars(wave_begin)
    /\ WF_vars(eval_start)
    /\ WF_vars(eval_finish)
    /\ WF_vars(wave_collect)
    /\ WF_vars(wave_lock)
    /\ WF_vars(wave_write)
    /\ WF_vars(execute_return)

SpecFair == Init /\ [][Next]_vars /\ ExecuteFairness

\* ---------------------------------------------------------------------
\* NodeDefRegistry (shared/src/node_def_registry.rs): a clonable handle on
\* one RwLock<HashMap<String, NodeDef>>.  Every `.read()` / `.write()` is
\* a step of its own; a guard returned by get_def is held until dropped.
\* ---------------------------------------------------------------------

\* `if self.internal.map.read().contains_key(&node_def_name) { panic!(..) }`
\* The read guard is a temporary of the condition: it is dropped before
\* the body of register goes on.
register_check(t) ==
    /\ reg_pc[t] = "idle"
    /\ \E name \in DefNames, def \in DefBodies :
        IF name \in DOMAIN map.defs
        THEN /\ reg_last' = [op |-> "register", name |-> name, val |-> "panic"]
             /\ UNCHANGED <<reg_pc, reg_arg>>
        ELSE /\ reg_pc' = [reg_pc EXCEPT ![t] = "checked"]
             /\ reg_arg' = [reg_arg EXCEPT ![t] = <<name, def>>]
             /\ UNCHANGED reg_last
    /\ UNCHANGED <<map, registered, compute_vars, batch_vars>>

\* `self.internal.map.write().insert(node_def_name, node_def);`
register_insert(t) ==
    /\ reg_pc[t] = "checked"
    /\ map.readers = 0
    /\ LET name == reg_arg[t][1]
           def == reg_arg[t][2]
       IN  /\ map' = [map EXCEPT !.defs = Insert(@, name, def)]
           /\ registered' = [registered EXCEPT ![name] = @ + 1]
           /\ reg_last' = [op |-> "register", name |-> name, val |-> "unit"]
    /\ reg_pc' = [reg_pc EXCEPT ![t] = "idle"]
    /\ reg_arg' = [reg_arg EXCEPT ![t] = NoCall]
    /\ UNCHANGED <<compute_vars, batch_vars>>

\* get_def: panics on an unknown name, and otherwise returns a guard that
\* keeps the read lock.
get_def(t) ==
    /\ reg_pc[t] = "idle"
    /\ \E name \in DefNames :
        IF name \notin DOMAIN map.defs
        THEN /\ reg_last' = [op |-> "get_def", name |-> name, val |-> "panic"]
             /\ UNCHANGED <<map, reg_pc, reg_arg>>
        ELSE /\ map' = [map EXCEPT !.readers = @ + 1]
             /\ reg_pc' = [reg_pc EXCEPT ![t] = "guard"]
             /\ reg_arg' = [reg_arg EXCEPT ![t] = <<name, map.defs[name]>>]
             /\ reg_last' = [op |-> "get_def", name |-> name, val |-> map.defs[name]]
    /\ UNCHANGED <<registered, compute_vars, batch_vars>>

\* The MappedRwLockReadGuard of get_def is dropped.
drop_guard(t) ==
    /\ reg_pc[t] = "guard"
    /\ map' = [map EXCEPT !.readers = @ - 1]
    /\ reg_pc' = [reg_pc EXCEPT ![t] = "idle"]
    /\ reg_arg' = [reg_arg EXCEPT ![t] = NoCall]
    /\ UNCHANGED <<registered, reg_last, compute_vars, batch_vars>>

\* `self.internal.map.write().clear()`
reset(t) ==
    /\ reg_pc[t] = "idle"
    /\ map.readers = 0
    /\ map' = [map EXCEPT !.defs = NoDefs]
    /\ registered' = [name \in DefNames |-> 0]
    /\ reg_last' = [op |-> "reset", name |-> "", val |-> "unit"]
    /\ UNCHANGED <<reg_pc, reg_arg, compute_vars, batch_vars>>

InitRegistry == GraphInit /\ RegistryInit /\ BatchIdle

NextRegistry ==
    \E t \in Callers :
        \/ register_check(t)
        \/ register_insert(t)
        \/ get_def(t)
        \/ drop_guard(t)
        \/ reset(t)

SpecRegistry == InitRegistry /\ [][NextRegistry]_vars

\* ---------------------------------------------------------------------
\* Threadrunner (server/src/threadrunner.rs): a scoped thread pool and a
\* channel of (index, output) messages.  The jobs of a batch run on the
\* threads of the pool; the calling thread reads the channel only after
\* the scoped pool has joined every job.
\* ---------------------------------------------------------------------

\* The inputs of the jobs.
JobInputs == {1, 2}

\* The batches run_batch is called with.
Batches == UNION {[1..n -> JobInputs] : n \in 0..MaxJobs}

\* The operator of the test processes_batches: `num * 2`.
operator(job) == job * 2

\* Threadrunner::new (unbounded channel) and new_with_max_batch_size
\* (bounded(max_batch_size)), for an OUTPUT type with or without drop glue.
InitBatch ==
    /\ GraphInit
    /\ RegistryInit
    /\ pool \in 1..MaxThreads
    /\ capacity \in {None} \cup {Some(c) : c \in 0..MaxCapacity}
    /\ needs_drop \in BOOLEAN
    /\ jobs = <<>>
    /\ job_state = <<>>
    /\ channel = <<>>
    /\ outputs = <<>>
    /\ output_count = 0
    /\ batch_pc = "idle"
    /\ batch_result = None

\* run_batch up to the end of the closure of pool.scoped: every job is
\* handed to the pool and `outputs` gets job_count uninitialized slots
\* (None stands for an uninitialized slot).
run_batch ==
    /\ batch_pc = "idle"
    /\ \E batch \in Batches :
        /\ jobs' = batch
        /\ job_state' = [i \in 1..Len(batch) |-> "queued"]
        /\ outputs' = [i \in 1..Len(batch) |-> None]
    /\ output_count' = 0
    /\ batch_result' = None
    /\ batch_pc' = "scoped"
    /\ UNCHANGED <<pool, capacity, needs_drop, channel, compute_vars, registry_vars>>

\* A free thread of the pool takes the next job of the pool's queue.
job_start ==
    /\ batch_pc = "scoped"
    /\ Cardinality({i \in 1..Len(jobs) : job_state[i] = "running"}) < pool
    /\ \E i \in 1..Len(jobs) :
        /\ job_state[i] = "queued"
        /\ \A k \in 1..(i - 1) : job_state[k] # "queued"
        /\ job_state' = [job_state EXCEPT ![i] = "running"]
    /\ UNCHANGED <<pool, capacity, needs_drop, jobs, channel, outputs, output_count,
                   batch_pc, batch_result, compute_vars, registry_vars>>

\* `send` returns once the channel has room for the message.
can_send(ch, cap) == IF IsNone(cap) THEN TRUE ELSE Len(ch) < Unwrap(cap)

\* `sender_instance.send((index, operator_instance(job)))`, index from 0.
job_send ==
    /\ batch_pc = "scoped"
    /\ \E i \in 1..Len(jobs) :
        /\ job_state[i] = "running"
        /\ can_send(channel, capacity)
        /\ channel' = Append(channel, <<i - 1, operator(jobs[i])>>)
        /\ job_state' = [job_state EXCEPT ![i] = "done"]
    /\ UNCHANGED <<pool, capacity, needs_drop, jobs, outputs, output_count,
                   batch_pc, batch_result, compute_vars, registry_vars>>

\* pool.scoped returns when every job of the scope has finished.
pool_join ==
    /\ batch_pc = "scoped"
    /\ \A i \in 1..Len(jobs) : job_state[i] = "done"
    /\ batch_pc' = "drain"
    /\ UNCHANGED <<pool, capacity, needs_drop, jobs, job_state, channel, outputs,
                   output_count, batch_result, compute_vars, registry_vars>>

\* Variant: the outputs are stored in the order of their arrival.
output_slot_by_arrival(index, received) == received + 1

\* The slot `outputs[index] = output` assigns (slots from 1).
output_slot(index, received) == index + 1

\* One iteration of `for (index, output) in self.output_receiver.try_iter()`.
\* The assignment drops the old value of the slot, which is uninitialized:
\* for an OUTPUT with drop glue that is undefined behaviour, and the
\* process either goes on or is aborted.
drain_one ==
    /\ batch_pc = "drain"
    /\ channel # <<>>
    /\ LET index == Head(channel)[1]
           output == Head(channel)[2]
           slot == output_slot(index, output_count)
       IN  \/ /\ slot \in 1..Len(outputs)
              /\ outputs' = [outputs EXCEPT ![slot] = Some(output)]
              /\ output_count' = output_count + 1
              /\ channel' = Tail(channel)
              /\ UNCHANGED batch_pc
           \/ /\ needs_drop \/ slot \notin 1..Len(outputs)
              /\ batch_pc' = "aborted"
              /\ UNCHANGED <<outputs, output_count, channel>>
    /\ UNCHANGED <<pool, capacity, needs_drop, jobs, job_state, batch_result,
                   compute_vars, registry_vars>>

\* The channel is empty: `if output_count < job_count { return Err(..) }`
\* and `return Ok(Box::new(outputs.into_iter()))`.
batch_return ==
    /\ batch_pc = "drain"
    /\ channel = <<>>
    /\ batch_result' =
            IF output_count < Len(jobs)
            THEN Some([tag |-> "Err", outputs |-> <<>>])
            ELSE Some([tag |-> "Ok", outputs |-> outputs])
    /\ batch_pc' = "idle"
    /\ UNCHANGED <<pool, capacity, needs_drop, jobs, job_state, channel, outputs,
                   output_count, compute_vars, registry_vars>>

NextBatch ==
    \/ run_batch
    \/ job_start
    \/ job_send
    \/ pool_join
    \/ drain_one
    \/ batch_return

SpecBatch == InitBatch /\ [][NextBatch]_vars

\* The threads of the pool and the calling thread keep running: a job
\* that can start starts, a send that has room returns, and the calling
\* thread goes on after the join.  Nobody is obliged to call run_batch.
BatchFairness ==
    /\ WF_vars(job_start)
    /\ WF_vars(job_send)
    /\ WF_vars(pool_join)
    /\ WF_vars(drain_one)
    /\ WF_vars(batch_return)

SpecBatchFair == InitBatch /\ [][NextBatch]_vars /\ BatchFairness

\* ---------------------------------------------------------------------
\* Graph-theoretic vocabulary of the properties
\* ---------------------------------------------------------------------

\* The ids a vertex references through its Wire inputs.
WiredIds(node) == {w.from_node_id : w \in Range(WireInputs(node))}

\* The pairs <<referrer, missing target>> of the invalid wires of a graph.
InvalidWires(m) ==
    {<<r, t>> \in (DOMAIN m) \X (UNION {WiredIds(m[i]) : i \in DOMAIN m}) :
        t \in WiredIds(m[r]) /\ t \notin DOMAIN m}

\* Every wire refers to an existing output of an existing vertex.
WellWired(m) == \A wire \in all_wires(m) : wire_in_range(m, wire)

\* The vertices reachable from the set S along at most k wires.
RECURSIVE WiredClosure(_, _, _)
WiredClosure(m, S, k) ==
    IF k = 0 THEN S
    ELSE WiredClosure(m, S \cup UNION {WiredIds(m[i]) : i \in S \cap DOMAIN m}, k - 1)

\* Some vertex reaches itself along wires.
HasCycle(m) ==
    \E v \in DOMAIN m : v \in WiredClosure(m, WiredIds(m[v]), Cardinality(DOMAIN m))

Max(S) == CHOOSE x \in S : \A y \in S : y <= x

\* The number of predecessors on the longest chain of wired dependencies
\* that ends in v (for an acyclic, validly wired graph).
RECURSIVE ChainDepth(_, _)
ChainDepth(m, v) ==
    IF WiredIds(m[v]) = {} THEN 0
    ELSE 1 + Max({ChainDepth(m, d) : d \in WiredIds(m[v])})

\* f assigns every vertex a layer below all layers of its dependents.
ValidLayering(m, f) ==
    \A v \in DOMAIN m : \A d \in WiredIds(m[v]) : d \in DOMAIN m /\ f[d] < f[v]

\* The outputs of v as the definition of the graph gives them: v's
\* function applied to the values of its inputs in declared order.
RECURSIVE Denotation(_, _)
Denotation(m, v) ==
    RunFunction(m[v].def_name,
        [k \in 1..Len(m[v].inputs) |->
            IF m[v].inputs[k].kind = "Const"
            THEN m[v].inputs[k].val
            ELSE Denotation(m, m[v].inputs[k].from_node_id)
                     [m[v].inputs[k].node_output_index + 1]])

IsFunction(node) == Registry[node.def_name].runner = "Function"

IsOutputDevice(node) == Registry[node.def_name].runner = "OutputDevice"

ExecuteReturnedOk == last_call = [op |-> "execute", val |-> "Ok"]

\* The number of values in the first n entries of the buffer `results`.
RECURSIVE ValueCount(_, _)
ValueCount(res, n) ==
    IF n = 0 THEN 0 ELSE Len(Unwrap(res[n])) + ValueCount(res, n - 1)

\* The largest number of vertices in a wave (0 without waves).
MaxWaveWidth(w) == Max({0} \cup {Len(w[k]) : k \in 1..Len(w)})

PrepareReturnedTrue == last_call = [op |-> "prepare", val |-> "true"]

\* Every function vertex has at least the inputs its body indexes, so
\* that every runner of the graph returns.
RunnersReturn(m) ==
    \A v \in DOMAIN m : Len(m[v].inputs) >= Registry[m[v].def_name].inputs

IsExecutor(node) == Registry[node.def_name].runner = "Executor"

\* The wires to an existing vertex whose index is not below the number of
\* outputs the vertex's definition declares.
OutOfRangeWires(m) ==
    {wire \in all_wires(m) :
        /\ wire.from_node_id \in DOMAIN m
        /\ wire.node_output_index >= Registry[m[wire.from_node_id].def_name].outputs}

\* Output j (from 0) of vertex v is referenced by some Wire of the graph.
OutputWired(m, v, j) ==
    \E u \in DOMAIN m : \E k \in 1..Len(m[u].inputs) :
        /\ m[u].inputs[k].kind = "Wire"
        /\ m[u].inputs[k].from_node_id = v
        /\ m[u].inputs[k].node_output_index = j

\* The vertices whose number of inputs differs from their definition's.
InputCountMismatches(m) ==
    {v \in DOMAIN m : Len(m[v].inputs) # Registry[m[v].def_name].inputs}

\* ---------------------------------------------------------------------
\* Properties
\* ---------------------------------------------------------------------

\* C1: after prepare on a graph in which some vertex r has a Wire to an id
\* t that is not in the vertex map, prepare has returned false and the
\* state is ErrInvalidWire{from: r, to_missing: t} (not a cycle error).
C1_InvalidWireReported ==
    (last_call.op = "prepare" /\ InvalidWires(nodes) # {})
        => /\ last_call.val = "false"
           /\ \E p \in InvalidWires(nodes) : state = ErrInvalidWire(p[1], p[2])

\* C2: after prepare on a graph whose wires all reference existing
\* vertices and which has a directed cycle (a self-wired vertex included),
\* prepare has returned false and the state is ErrFoundCycle.
C2_CycleDetected ==
    (last_call.op = "prepare" /\ InvalidWires(nodes) = {} /\ HasCycle(nodes))
        => (last_call.val = "false" /\ state = ErrFoundCycle)

\* C2 witness: prepare has rejected a graph with a self-wired vertex.
C2_Witness ==
    /\ last_call = [op |-> "prepare", val |-> "false"]
    /\ InvalidWires(nodes) = {}
    /\ \E v \in DOMAIN nodes : v \in WiredIds(nodes[v])
    /\ state = ErrFoundCycle

\* C3: set_node and remove_node leave the state Unprepared whatever it
\* was; the state then stays Unprepared until prepare is called, and every
\* execute called in it returns the precondition error.
C3_Invalidation ==
    [][/\ last_call'.op \in {"set_node", "remove_node"} => state' = Unprepared
       /\ (state = Unprepared /\ last_call'.op = "execute") => last_call'.val = "Err"
       /\ (state = Unprepared /\ state' # Unprepared) => last_call'.op = "prepare"]_vars

\* C3 witness: a graph that had been prepared was mutated, and the
\* execute that followed returned the precondition error.
C3_Witness ==
    /\ last_call = [op |-> "execute", val |-> "Err"]
    /\ state = Unprepared
    /\ IsSome(executors)

\* C4 (second half): whenever prepare is called on an acyclic graph whose
\* wires all refer to existing outputs, a graph that is already Ready
\* included, it returns true and the state afterwards is Ready.
C4_PrepareSucceedsOnValidGraph ==
    (last_call.op = "prepare" /\ WellWired(nodes) /\ ~HasCycle(nodes))
        => (last_call.val = "true" /\ state = Ready)

\* C5: an execute called while the state is not Ready returns the
\* precondition error, invokes no runner, and changes neither the state,
\* the vertex map nor the cached waves, executors and pool.
C5_ExecuteNotReady ==
    [][(state # Ready /\ last_call'.op = "execute")
        => /\ last_call'.val = "Err"
           /\ runs' = NoRuns
           /\ pc' = "idle"
           /\ UNCHANGED graph_vars]_vars

\* C5 witness: execute returned the precondition error in an error state.
C5_Witness ==
    /\ last_call = [op |-> "execute", val |-> "Err"]
    /\ state = ErrFoundCycle

\* C6: when execute returns Ok on a graph of pure-function vertices, the
\* store holds for every vertex v and output index j the j-th output of
\* v's function applied to its inputs in declared order (a Const gives its
\* value, a Wire the referenced output).
C6_StoreHoldsFunctionOutputs ==
    (ExecuteReturnedOk /\ \A v \in DOMAIN nodes : IsFunction(nodes[v]))
        => \A v \in DOMAIN nodes :
             \A j \in 1..get_output_count(nodes[v]) :
                /\ NodeOutputRef(v, j - 1) \in DOMAIN ret
                /\ ret[NodeOutputRef(v, j - 1)] = Denotation(nodes, v)[j]

\* C6 witness: the diamond of executes_simple_graphs was executed and
\* store[(4, 0)] is 10.
C6_Witness ==
    /\ ExecuteReturnedOk
    /\ nodes = [i \in 1..4 |->
                 CASE i = 1 -> Node(1, "output_1", <<>>)
                   [] i = 2 -> Node(2, "add", <<Wire(1, 0), Const(3)>>)
                   [] i = 3 -> Node(3, "add", <<Wire(1, 0), Const(5)>>)
                   [] i = 4 -> Node(4, "add", <<Wire(2, 0), Wire(3, 0)>>)]
    /\ ret[NodeOutputRef(4, 0)] = 10

\* C7: when execute returns Ok, the store has the key (v, j) for every
\* vertex v that is not an output device and every declared output j of v.
C7_Completeness ==
    ExecuteReturnedOk
        => \A v \in DOMAIN nodes :
             ~IsOutputDevice(nodes[v])
                => \A j \in 0..(get_output_count(nodes[v]) - 1) :
                      NodeOutputRef(v, j) \in DOMAIN ret

\* C7 witness: execute returned Ok on a graph with an output device and
\* a function vertex of two declared outputs.
C7_Witness ==
    /\ ExecuteReturnedOk
    /\ \E v, u \in DOMAIN nodes :
        /\ IsOutputDevice(nodes[v])
        /\ IsFunction(nodes[u])
        /\ get_output_count(nodes[u]) = 2

\* C8: all the executes that returned Ok for one vertex map, whatever the
\* worker count, the order of the waves' vertices and the interleaving of
\* the evaluations, returned the same store.
C8_Deterministic == \A a, b \in seen : a[2] = b[2]

\* C8 witness: the same vertex map was executed with one worker and with
\* two workers.
C8_Witness ==
    /\ ExecuteReturnedOk
    /\ \E a, b \in seen : a[1] = 1 /\ b[1] = 2

\* C9: in the cached waves every vertex that a vertex of wave k references
\* through a Wire lies in a wave j < k.
C9_DependencyClosure ==
    IsSome(waves)
        => \A k \in 1..Len(Unwrap(waves)) :
             \A v \in Range(Unwrap(waves)[k]) :
                \A d \in WiredIds(nodes[v]) :
                    \E j \in 1..(k - 1) : d \in Range(Unwrap(waves)[j])

\* C9 witness: prepare layered a graph into three waves, the last vertex
\* having two wired dependencies.
C9_Witness ==
    /\ state = Ready
    /\ Len(Unwrap(waves)) >= 3
    /\ \E v \in DOMAIN nodes : Cardinality(WiredIds(nodes[v])) = 2

\* C10: wave k of the cached waves is exactly the set of vertices whose
\* longest chain of wired dependencies has k predecessors, whatever the
\* iteration order of the map, and no valid layering has fewer waves.
C10_WavesAreDepthLevels ==
    IsSome(waves)
        => LET w == Unwrap(waves)
           IN  /\ \A v \in DOMAIN nodes : ChainDepth(nodes, v) < Len(w)
               /\ \A k \in 1..Len(w) :
                    /\ Range(w[k]) = {v \in DOMAIN nodes : ChainDepth(nodes, v) = k - 1}
                    /\ Cardinality(Range(w[k])) = Len(w[k])
               /\ \A n \in 0..(Len(w) - 1) :
                    \A f \in [DOMAIN nodes -> 1..n] : ~ValidLayering(nodes, f)

\* C10 witness: a wave of two vertices between two other waves.
C10_Witness ==
    /\ IsSome(waves)
    /\ Len(Unwrap(waves)) = 3
    /\ Len(Unwrap(waves)[2]) = 2

\* C11: in a successfully prepared graph the live-output mask of every
\* vertex v has as many entries as v's definition declares outputs, and
\* its entry for output j is true exactly when some Wire input of some
\* vertex of the graph refers to output j of v.
C11_LiveOutputMask ==
    state = Ready
        => /\ IsSome(masks)
           /\ DOMAIN Unwrap(masks) = DOMAIN nodes
           /\ \A v \in DOMAIN nodes :
                LET mask == Unwrap(masks)[v]
                IN  /\ Len(mask) = Registry[nodes[v].def_name].outputs
                    /\ \A j \in 1..Len(mask) :
                         mask[j] <=>
                            \E u \in DOMAIN nodes : \E k \in 1..Len(nodes[u].inputs) :
                                /\ nodes[u].inputs[k].kind = "Wire"
                                /\ nodes[u].inputs[k].from_node_id = v
                                /\ nodes[u].inputs[k].node_output_index = j - 1

\* C11 witness: a prepared graph in which only output 0 of a two-output
\* vertex is wired; its mask is [true, false].
C11_Witness ==
    /\ state = Ready
    /\ IsSome(masks)
    /\ \E v \in DOMAIN nodes :
        /\ Registry[nodes[v].def_name].outputs = 2
        /\ Unwrap(masks)[v] = <<TRUE, FALSE>>

\* C12: the result store of an execute never has a key (v, j) of an
\* output-device vertex v, while the execute runs and when it has returned.
C12_NoDeviceKeys ==
    \A key \in DOMAIN ret :
        /\ key[1] \in DOMAIN nodes
        /\ ~IsOutputDevice(nodes[key[1]])

\* C12 witness: execute returned Ok with a non-empty store on a graph with
\* an output device.
C12_Witness ==
    /\ ExecuteReturnedOk
    /\ DOMAIN ret # {}
    /\ \E v \in DOMAIN nodes : IsOutputDevice(nodes[v])

\* C13: every vertex of the graph stands at exactly one position of
\* exactly one cached wave; during an execute no vertex's runner is
\* invoked twice, and when the execute returns Ok every vertex's runner
\* has been invoked exactly once.
C13_EachVertexOnce ==
    /\ IsSome(waves) /\ pc # "panicked"
         => \A v \in DOMAIN nodes :
              Cardinality({p \in {<<k, i>> : k \in 1..Len(Unwrap(waves)), i \in 1..Cardinality(DOMAIN nodes)} :
                            /\ p[2] <= Len(Unwrap(waves)[p[1]])
                            /\ Unwrap(waves)[p[1]][p[2]] = v}) = 1
    /\ \A v \in AllIds : runs[v] <= 1
    /\ ExecuteReturnedOk
         => \A v \in AllIds : runs[v] = (IF v \in DOMAIN nodes THEN 1 ELSE 0)

\* C13 witness: execute returned Ok on a graph of four vertices in three
\* waves.
C13_Witness ==
    /\ ExecuteReturnedOk
    /\ Cardinality(DOMAIN nodes) = 4
    /\ Len(Unwrap(waves)) = 3

\* C14: of the register calls for one name since the last reset at most
\* one returns, also when the calls run concurrently (every other one
\* fails), so that a registered definition is never replaced before reset.
C14_RegisterOnce == \A name \in DefNames : registered[name] <= 1

\* C15: after set_node or remove_node the state is Unprepared and every
\* cached preparation field is absent: waves, executors and worker pool.
C15_MutationClearsCaches ==
    last_call.op \in {"set_node", "remove_node"}
        => /\ state = Unprepared
           /\ IsNone(waves)
           /\ IsNone(executors)
           /\ IsNone(runner)

\* C16: every prepare call on an acyclic, validly wired graph calls
\* prepare(mask) exactly once on a fresh executor of every executor-factory
\* vertex, with that vertex's live-output mask, and stores it under the
\* vertex id; function and output-device vertices get no executor.
C16_ExecutorsBound ==
    (last_call.op = "prepare" /\ WellWired(nodes) /\ ~HasCycle(nodes))
        => /\ IsSome(executors)
           /\ DOMAIN Unwrap(executors) = DOMAIN nodes
           /\ \A v \in DOMAIN nodes :
                IF IsExecutor(nodes[v])
                THEN /\ prepare_calls[v] = 1
                     /\ IsSome(Unwrap(executors)[v])
                     /\ Unwrap(Unwrap(executors)[v]).enabled_outputs =
                            [j \in 1..Registry[nodes[v].def_name].outputs |->
                                OutputWired(nodes, v, j - 1)]
                ELSE /\ prepare_calls[v] = 0
                     /\ IsNone(Unwrap(executors)[v])

\* C17: a graph with a vertex whose number of inputs differs from its
\* definition's is never Ready, and no execute invokes that vertex's
\* runner.
C17_InputCountMismatchDetected ==
    \A v \in InputCountMismatches(nodes) : state # Ready /\ runs[v] = 0

\* C18: on an acyclic graph with a Wire to an existing vertex whose index
\* is not below the vertex's declared output count, neither prepare nor
\* execute aborts, and no execute returns a result store.
C18_OutOfRangeWireReported ==
    (/\ OutOfRangeWires(nodes) # {}
     /\ InvalidWires(nodes) = {}
     /\ ~HasCycle(nodes))
        => (pc # "panicked" /\ ~ExecuteReturnedOk)

\* C19: while the vertices of a wave are evaluated, the store has the
\* value of every Wire input of every vertex of that wave: no lookup of an
\* evaluation misses.
C19_WireInputsPresent ==
    pc = "read"
        => \A i \in 1..Len(CurrentWave) :
             \A k \in 1..Len(nodes[CurrentWave[i]].inputs) :
                LET input == nodes[CurrentWave[i]].inputs[k]
                IN  input.kind = "Wire"
                        => <<input.from_node_id, input.node_output_index>> \in DOMAIN ret

\* C19 witness: a vertex of the third wave with two Wire inputs is being
\* evaluated.
C19_Witness ==
    /\ pc = "read"
    /\ wave_idx = 3
    /\ \E i \in running : Len(WireInputs(nodes[CurrentWave[i]])) = 2

\* C20: the read guard and the write guard of the store are never held
\* together; an evaluation runs only under the read guard; the store is
\* written only under the write guard while no evaluation of the wave is
\* pending or running; and when the evaluations of a wave start, every
\* output of the earlier waves is in the store.
C20_PhaseBarrier ==
    /\ [](/\ ~(lock.readers > 0 /\ lock.writer)
          /\ running # {} => (lock.readers > 0 /\ ~lock.writer)
          /\ pc = "read"
                => \A k \in 1..(wave_idx - 1) : \A v \in Range(Unwrap(waves)[k]) :
                      \A j \in 1..Registry[nodes[v].def_name].outputs :
                          IsOutputDevice(nodes[v]) \/ <<v, j - 1>> \in DOMAIN ret)
    /\ [][(ret' # ret /\ pc # "idle")
            => (lock.writer /\ lock.readers = 0 /\ pending = {} /\ running = {})]_vars

\* C20 witness: the write guard is held for the second wave, whose two
\* evaluations are complete.
C20_Witness ==
    /\ pc = "write"
    /\ lock = [readers |-> 0, writer |-> TRUE]
    /\ wave_idx = 2
    /\ Len(results) = 2

\* C21: within one execute the store only grows: the store changes only
\* in the write phase of a wave, which keeps every entry it finds with its
\* value and adds one new key for every value the wave returned, so that
\* no key is inserted twice and no entry is removed or overwritten.
C21_StoreOnlyGrows ==
    [][/\ (pc \notin {"idle", "write"}) => ret' = ret
       /\ pc = "write"
            => /\ \A key \in DOMAIN ret : key \in DOMAIN ret' /\ ret'[key] = ret[key]
               /\ Cardinality(DOMAIN ret') =
                    Cardinality(DOMAIN ret) + ValueCount(results, Len(results))]_vars

\* C21 witness: two write phases of one execute have filled the store,
\* the second one after a two-output vertex was stored.
C21_Witness ==
    /\ pc = "loop"
    /\ wave_idx = 3
    /\ Cardinality(DOMAIN ret) >= 3

\* C22: whenever the state is Ready, the cached waves exist and hold
\* exactly the current vertex ids, each once; the executors map exists and
\* has an entry for exactly every current vertex id, an executor for
\* exactly the executor-factory vertices; and the worker pool exists.
C22_ReadyIsConsistent ==
    state = Ready
        => /\ IsSome(waves)
           /\ UNION {Range(Unwrap(waves)[k]) : k \in 1..Len(Unwrap(waves))} = DOMAIN nodes
           /\ \A k, l \in 1..Len(Unwrap(waves)) :
                /\ Cardinality(Range(Unwrap(waves)[k])) = Len(Unwrap(waves)[k])
                /\ k # l => Range(Unwrap(waves)[k]) \cap Range(Unwrap(waves)[l]) = {}
           /\ IsSome(executors)
           /\ DOMAIN Unwrap(executors) = DOMAIN nodes
           /\ \A v \in DOMAIN nodes :
                IsSome(Unwrap(executors)[v]) <=> IsExecutor(nodes[v])
           /\ IsSome(runner)
           /\ Unwrap(runner) >= 1

\* C22 witness: a prepare has just succeeded on a graph that holds an
\* executor vertex and a function vertex.
C22_Witness ==
    /\ state = Ready
    /\ last_call = [op |-> "prepare", val |-> "true"]
    /\ \E v, u \in DOMAIN nodes : IsExecutor(nodes[v]) /\ IsFunction(nodes[u])

\* C23 as stated: after a prepare(max_threads) that returned true, the
\* worker pool has min(W, max_threads) threads, W being the largest number
\* of vertices in a wave, for every graph, the empty graph included.
C23_PoolSizeIsMinWidth ==
    PrepareReturnedTrue
        => runner = Some(Min(MaxWaveWidth(Unwrap(waves)), requested))

\* C23, amended: after a prepare(max_threads) that returned true on a
\* graph whose waves all have fewer than 65536 vertices (the width of a
\* wave is compared as a u16), the worker pool has
\* min(max(W, 1), max_threads) threads, W being the largest number of
\* vertices in a wave; the empty graph gets a pool of one thread.
C23_PoolSizeIsMinWidthAtLeastOne ==
    (PrepareReturnedTrue /\ MaxWaveWidth(Unwrap(waves)) < U16Range)
        => runner = Some(Min(Max({1, MaxWaveWidth(Unwrap(waves))}), requested))

\* C23 witness: prepare(2) returned true on the empty graph and on no
\* wave the pool has one thread.
C23_Witness ==
    /\ PrepareReturnedTrue
    /\ DOMAIN nodes = {}
    /\ requested = 2
    /\ runner = Some(1)

\* C24: in an error state (ErrFoundCycle or ErrInvalidWire) every prepare
\* returns false and every execute returns the precondition error, both
\* leaving the state as it is; set_node and remove_node lead to Unprepared,
\* and nothing else changes the state.
C24_ErrorStatesTerminal ==
    [][state.tag \in {"ErrFoundCycle", "ErrInvalidWire"}
        => /\ last_call'.op = "prepare"
                => (state' = state /\ last_call'.val = "false")
           /\ last_call'.op = "execute"
                => (state' = state /\ last_call'.val = "Err")
           /\ last_call'.op \in {"set_node", "remove_node"} => state' = Unprepared
           /\ state' # state => last_call'.op \in {"set_node", "remove_node"}]_vars

\* C24 witness: execute was called, and returned the precondition error,
\* in the error state a wire to a missing vertex had led to.
C24_Witness ==
    /\ state.tag \in {"ErrFoundCycle", "ErrInvalidWire"}
    /\ InvalidWires(nodes) # {}
    /\ last_call = [op |-> "execute", val |-> "Err"]

\* C25: an execute that has entered its wave loop on a graph whose runners
\* all return eventually returns Ok, for every pool size, a pool of one
\* thread included: the read guard, the write guard and the workers never
\* block each other for good.
C25_ExecuteTerminates ==
    (pc \in {"loop", "read", "collected", "write"} /\ RunnersReturn(nodes))
        ~> (pc = "idle" /\ ExecuteReturnedOk)

\* C25 witness: execute returned Ok from a pool of one thread on a graph
\* with a wave of two vertices.
C25_Witness ==
    /\ ExecuteReturnedOk
    /\ runner = Some(1)
    /\ \E k \in 1..Len(Unwrap(waves)) : Len(Unwrap(waves)[k]) = 2

\* C26: whenever run_batch has returned, it has returned Ok with one
\* output per job, the i-th output being the operator applied to the i-th
\* job, whatever thread ran a job and in whatever order the jobs sent
\* their messages.
C26_BatchOutputsInJobOrder ==
    (batch_pc = "idle" /\ IsSome(batch_result))
        => /\ Unwrap(batch_result).tag = "Ok"
           /\ Unwrap(batch_result).outputs = [i \in 1..Len(jobs) |-> Some(jobs[i] * 2)]

\* C26 witness: a pool of two threads has returned a batch of three jobs
\* whose first two inputs differ.
C26_Witness ==
    /\ batch_pc = "idle"
    /\ IsSome(batch_result)
    /\ pool >= 2
    /\ Len(jobs) >= 3
    /\ jobs[1] # jobs[2]

\* C27: every run_batch whose jobs are handed to the pool eventually
\* returns, also on a runner with a bounded channel and a batch of more
\* jobs than the channel holds.
C27_BatchReturns ==
    (batch_pc = "scoped" /\ ~needs_drop)
        ~> (batch_pc = "idle" /\ IsSome(batch_result))

====
